---- MODULE Spec2Model ----
(***************************************************************************)
(* BuildWatchDog (src/buildwatchdog.py): the monitor loop BuildWatchDog.run *)
(* with add_event and create_display, as a state machine.                   *)
(*                                                                          *)
(* Spec      the process running run(): initial fetch, polling loop,        *)
(*           confirmatory fetch, KeyboardInterrupt handler.                 *)
(* SpecUnit  add_event and create_display called directly on a              *)
(*           BuildWatchDog object, with their inputs drawn from small sets. *)
(*                                                                          *)
(* Python values: a dict is a record carrying exactly the keys that are     *)
(* present plus a "type" tag; None of Optional[Dict] is NoneInfo; None of a *)
(* status is the string None.  The external collaborators (aws CLI,         *)
(* notify-send) are the nondeterministic result of each fetch and the list  *)
(* `sent` of notifier calls.  KeyboardInterrupt is modelled where the code  *)
(* handles it (the try block of run, lines 276-314): while the process      *)
(* waits for a fetch, sleeps, or renders; add_event is one step.            *)
(* SpecRender and SpecFetch draw the inputs of create_display and           *)
(* get_build_info and apply them once.  SpecPair runs two objects that      *)
(* differ in notify mode on the same fetch results.                         *)
(***************************************************************************)
EXTENDS Integers, Sequences, FiniteSets, TLC

\* ------------------------------------------------------------------ bounds
\* Loop iterations (fetches inside `while True`) explored in Spec.
MaxPolls == 3
\* Calls of add_event explored in SpecUnit (more than the 8 rendered rows).
MaxUnitEvents == 9
\* Longest phase list handed to create_display in SpecUnit.
MaxPhases == 2

\* --------------------------------------------------------------- constants
\* `self.events[-8:]`
RecentCount == 8
\* `interval: int = 10`
DefaultInterval == 10
\* `time.sleep(3)`
FinalPause == 3

None == "<None>"
NoneInfo == [type |-> "NoneType"]
EmptyDict == [type |-> "dict"]

\* class BuildStatus
BuildStatus ==
    {"IN_PROGRESS", "SUCCEEDED", "FAILED", "STOPPED", "FAULT", "TIMED_OUT"}

\* The list literal of line 296.
TerminalList == {"SUCCEEDED", "FAILED", "STOPPED", "FAULT", "TIMED_OUT"}

NotifyModes == {"terminal", "desktop", "both"}

\* ------------------------------------------------------------ Python dicts
\* dict.get(key, default)
Get(d, key, default) == IF key \in DOMAIN d THEN d[key] ELSE default

\* Truth value of an Optional[Dict]: None and {} are false.
Truthy(d) == d.type = "dict" /\ DOMAIN d # {"type"}

\* Truth value of an Optional[str]: None and "" are false.
TruthyStr(s) == s # None /\ s # ""

Min(a, b) == IF a < b THEN a ELSE b

\* --------------------------------------------------------- create_display
\* status_emoji.get(status, default)
StatusEmoji(status) ==
    CASE status = "IN_PROGRESS" -> "yellow"
      [] status = "SUCCEEDED"   -> "green"
      [] status = "FAILED"      -> "red"
      [] status = "STOPPED"     -> "orange"
      [] status = "FAULT"       -> "red"
      [] status = "TIMED_OUT"   -> "red"
      [] OTHER                  -> "white"

\* The style of the status text (line 164).
StatusStyle(status) ==
    IF status = "SUCCEEDED" THEN "bold green"
    ELSE IF status = "IN_PROGRESS" THEN "bold yellow"
    ELSE "bold red"

\* ResolvePhaseStatus with the overall build status left out of line 179.
ResolveIgnoringBuildStatus(phase, status) ==
    LET phase_name == Get(phase, "phaseType", "Unknown")
        phase_status == Get(phase, "phaseStatus", None)
    IN  IF ~TruthyStr(phase_status)
        THEN IF phase_name = "COMPLETED" THEN "SUCCEEDED" ELSE "PENDING"
        ELSE phase_status

\* Lines 174-182: the status a phase is shown with.
ResolvePhaseStatus(phase, status) ==
    LET phase_name == Get(phase, "phaseType", "Unknown")
        phase_status == Get(phase, "phaseStatus", None)
    IN  IF ~TruthyStr(phase_status)
        THEN IF phase_name = "COMPLETED" /\ status = "SUCCEEDED"
             THEN "SUCCEEDED"
             ELSE "PENDING"
        ELSE phase_status

\* Lines 184-201: icon and style of a resolved phase status.
PhaseIcon(phase_status) ==
    CASE phase_status = "SUCCEEDED"   -> [icon |-> "check", style |-> "green"]
      [] phase_status = "IN_PROGRESS" -> [icon |-> "hourglass", style |-> "yellow"]
      [] phase_status = "FAILED"      -> [icon |-> "cross", style |-> "red"]
      [] phase_status = "STOPPED"     -> [icon |-> "pause", style |-> "yellow"]
      [] phase_status \in {"FAULT", "TIMED_OUT"}
                                      -> [icon |-> "cross", style |-> "red"]
      [] OTHER                        -> [icon |-> "circle", style |-> "dim"]

\* Lines 203-206: one row of the timeline table.
PhaseRow(phase, status) ==
    LET phase_status == ResolvePhaseStatus(phase, status)
    IN  [icon   |-> PhaseIcon(phase_status).icon,
         name   |-> Get(phase, "phaseType", "Unknown"),
         status |-> phase_status,
         style  |-> PhaseIcon(phase_status).style]

NoPhasesRow ==
    [icon |-> "", name |-> "No phase information available",
     status |-> "", style |-> "dim"]

\* Lines 171-208.
Timeline(phases, status) ==
    IF phases # <<>>
    THEN [i \in 1..Len(phases) |-> PhaseRow(phases[i], status)]
    ELSE <<NoPhasesRow>>

\* timestamp.strftime("%H:%M:%S"), the timestamp counted in seconds.
StrfTime(ts) == <<(ts \div 3600) % 24, (ts \div 60) % 60, ts % 60>>

\* The slice evs[:n], where the code takes evs[-n:].
FirstN(evs, n) == SubSeq(evs, 1, Min(n, Len(evs)))

\* The slice evs[-n:].
LastN(evs, n) ==
    IF Len(evs) <= n THEN evs ELSE SubSeq(evs, Len(evs) - n + 1, Len(evs))

NoEventsRow == [time |-> <<"No events yet">>, message |-> <<>>]

\* Lines 215-222.
EventRows(evs) ==
    IF evs # <<>>
    THEN LET recent == LastN(evs, RecentCount)
         IN  [i \in 1..Len(recent) |->
                 [time    |-> StrfTime(recent[i].timestamp),
                  message |-> recent[i].message]]
    ELSE <<NoEventsRow>>

\* create_display(build_info) of an object whose events are evs.
create_display(info, evs, project, interval) ==
    LET status == Get(info, "buildStatus", "UNKNOWN")
        phases == Get(info, "phases", <<>>)
    IN  [type        |-> "Panel",
         project     |-> project,
         emoji       |-> StatusEmoji(status),
         status      |-> status,
         style       |-> StatusStyle(status),
         timeline    |-> Timeline(phases, status),
         event_table |-> EventRows(evs),
         interval    |-> interval]

NoPanel == [type |-> "NoneType"]

\* No subprocess has run; get_build_info has not been called.
NoCommand == [kind |-> "none"]

NotCalled == [called |-> FALSE]

\* twin outside SpecPair: there is one object only.
NoTwin == [type |-> "none"]

\* ------------------------------------------------------------------ state
VARIABLES
    pc,             \* where the process is: "start", "poll", "sleep", "final",
                    \* "done", "interrupted", "fatal" ("unit", "rendered" in SpecUnit)
    notify_mode,    \* self.notify_mode
    events,         \* self.events
    last_status,    \* self.last_status
    project_name,   \* self.project_name
    build_info,     \* run's local build_info (the last fetch of lines 267, 279)
    current_status, \* run's local current_status (None before the first good poll)
    final_build_info, \* run's local final_build_info
    display,        \* the panel shown by Live
    sent,           \* the calls of NotificationManager.send, in order
    summary,        \* the status printed by line 307 (None before)
    exit_code,      \* <<>> while running, <<code>> once the process has exited
    aws_calls,      \* calls of get_build_info so far
    polls,          \* fetches issued by the loop (line 279) so far
    now,            \* the clock read by datetime.now(), in seconds
    cmd,            \* SpecFetch: what subprocess.run did (line 60)
    fetch_result,   \* SpecFetch: how get_build_info ended for cmd
    twin            \* SpecPair: a second BuildWatchDog object, fed the same fetches

vars == <<pc, notify_mode, events, last_status, project_name, build_info,
          current_status, final_build_info, display, sent, summary, exit_code,
          aws_calls, polls, now, cmd, fetch_result, twin>>

\* -------------------------------------------------------------- add_event
\* Line 256 without its `is not None` test.
StatusChangedNoNoneTest(status, last) == status # last

\* Line 256 without its comparison of the two statuses.
StatusChangedNoComparison(status, last) == last # None

\* Line 256.
StatusChanged(status, last) == status # last /\ last # None

\* Line 257 with the wrong pair of modes.
DesktopDeliveryWrongModes(mode) == mode \in {"terminal", "both"}

\* Line 257.
DesktopDelivery(mode) == mode \in {"desktop", "both"}

\* add_event with line 259 nested under the notify-mode test of line 257.
add_event_UpdateUnderModeTest(self, status, message, t) ==
    LET event == [timestamp |-> t, status |-> status, message |-> message]
        changed == StatusChanged(status, self.last_status)
        deliver == changed /\ DesktopDelivery(self.notify_mode)
    IN  [events      |-> Append(self.events, event),
         sent        |-> IF deliver
                         THEN Append(self.sent, <<"BuildWatchDog", message>>)
                         ELSE self.sent,
         last_status |-> IF deliver THEN status ELSE self.last_status,
         notify_mode |-> self.notify_mode]

\* add_event(status, message) on the object state self, at clock value t:
\* the object state it leaves.
add_event(self, status, message, t) ==
    LET event == [timestamp |-> t, status |-> status, message |-> message]
        changed == StatusChanged(status, self.last_status)
    IN  [events      |-> Append(self.events, event),
         sent        |-> IF changed /\ DesktopDelivery(self.notify_mode)
                         THEN Append(self.sent, <<"BuildWatchDog", message>>)
                         ELSE self.sent,
         last_status |-> IF changed THEN status ELSE self.last_status,
         notify_mode |-> self.notify_mode]

\* The fields of the BuildWatchDog object that add_event reads and writes.
Self ==
    [events |-> events, sent |-> sent, last_status |-> last_status,
     notify_mode |-> notify_mode]

\* ------------------------------------------------- what the aws CLI returns
PhasesRunning ==
    <<[phaseType |-> "SUBMITTED", phaseStatus |-> "SUCCEEDED"],
      [phaseType |-> "BUILD", phaseStatus |-> "IN_PROGRESS"]>>

PhasesFinished ==
    <<[phaseType |-> "BUILD", phaseStatus |-> "SUCCEEDED"],
      [phaseType |-> "COMPLETED"]>>

\* The builds[0] objects get_build_info returns in Spec: one per build status
\* of the service, one with a status the program does not know, and one
\* without the buildStatus and phases keys.
Snapshots ==
    {[type |-> "dict", projectName |-> "demo", buildStatus |-> s,
      phases |-> IF s \in TerminalList THEN PhasesFinished ELSE PhasesRunning]
        : s \in BuildStatus \cup {"QUEUED"}}
    \cup {[type |-> "dict", projectName |-> "demo"]}

\* -------------------------------------------------------------------- run
Init ==
    /\ pc = "start"
    /\ notify_mode \in NotifyModes
    /\ events = <<>>
    /\ last_status = None
    /\ project_name = ""
    /\ build_info = NoneInfo
    /\ current_status = None
    /\ final_build_info = NoneInfo
    /\ display = NoPanel
    /\ sent = <<>>
    /\ summary = None
    /\ exit_code = <<>>
    /\ aws_calls = 0
    /\ polls = 0
    /\ now = 0
    /\ cmd = NoCommand
    /\ fetch_result = NotCalled
    /\ twin = NoTwin

\* Line 296 with TIMED_OUT missing from the list.
IsTerminalNoTimedOut(status) == status \in TerminalList \ {"TIMED_OUT"}

\* Line 296 as `current_status != "IN_PROGRESS"`.
IsTerminalNotInProgress(status) == status # "IN_PROGRESS"

\* Line 296.
IsTerminal(status) == status \in TerminalList

\* The initial fetch failure handled the way the loop handles one (an ERROR
\* event, then on to polling) instead of sys.exit(1).
InitialFetchFailLogged ==
    /\ pc = "start"
    /\ \E info \in {NoneInfo, EmptyDict} :
          LET after == add_event(Self, "ERROR",
                                 <<"Failed to fetch build info">>, now)
          IN  /\ ~Truthy(info)
              /\ build_info' = info
              /\ events' = after.events
              /\ sent' = after.sent
              /\ last_status' = after.last_status
    /\ aws_calls' = aws_calls + 1
    /\ pc' = "poll"
    /\ UNCHANGED <<cmd, fetch_result, twin>>
    /\ UNCHANGED <<notify_mode, project_name, current_status,
                   final_build_info, display, summary, exit_code, polls, now>>

\* Lines 267-269: the initial fetch returns None (or {}): sys.exit(1).
InitialFetchFail ==
    /\ pc = "start"
    /\ \E info \in {NoneInfo, EmptyDict} :
          /\ ~Truthy(info)
          /\ build_info' = info
    /\ aws_calls' = aws_calls + 1
    /\ exit_code' = <<1>>
    /\ pc' = "fatal"
    /\ UNCHANGED <<cmd, fetch_result, twin>>
    /\ UNCHANGED <<notify_mode, events, last_status, project_name,
                   current_status, final_build_info, display, sent, summary,
                   polls, now>>

\* Line 273 left out: last_status is still None at the first add_event.
InitialLastStatusUnset(initial_status) == None

\* The value line 273 gives last_status before the first add_event.
InitialLastStatus(initial_status) == initial_status

\* Lines 267-277: the initial fetch returns a snapshot.
InitialFetchOk ==
    /\ pc = "start"
    /\ \E info \in Snapshots :
          LET initial_status == Get(info, "buildStatus", "UNKNOWN")
              self == [Self EXCEPT
                         !.last_status = InitialLastStatus(initial_status)]
              after == add_event(self, initial_status,
                                 <<"Started monitoring -", initial_status>>, now)
          IN  /\ Truthy(info)
              /\ build_info' = info
              /\ project_name' = Get(info, "projectName", "Unknown")
              /\ events' = after.events
              /\ sent' = after.sent
              /\ last_status' = after.last_status
              /\ display' = create_display(info, after.events, project_name',
                                           DefaultInterval)
    /\ aws_calls' = aws_calls + 1
    /\ pc' = "poll"
    /\ UNCHANGED <<cmd, fetch_result, twin>>
    /\ UNCHANGED <<notify_mode, current_status, final_build_info, summary,
                   exit_code, polls, now>>

\* A failed poll handled the way the initial fetch handles one: sys.exit(1).
PollFailFatal ==
    /\ pc = "poll"
    /\ polls < MaxPolls
    /\ \E info \in {NoneInfo, EmptyDict} :
          /\ ~Truthy(info)
          /\ build_info' = info
    /\ aws_calls' = aws_calls + 1
    /\ polls' = polls + 1
    /\ exit_code' = <<1>>
    /\ pc' = "fatal"
    /\ UNCHANGED <<cmd, fetch_result, twin>>
    /\ UNCHANGED <<notify_mode, events, last_status, project_name,
                   current_status, final_build_info, display, sent, summary,
                   now>>

\* A failed poll that appends its ERROR event (and notifies on a changed
\* status) but leaves last_status as it was.
PollFailKeepsLastStatus ==
    /\ pc = "poll"
    /\ polls < MaxPolls
    /\ \E info \in {NoneInfo, EmptyDict} :
          LET after == add_event(Self, "ERROR",
                                 <<"Failed to fetch build info">>, now)
          IN  /\ ~Truthy(info)
              /\ build_info' = info
              /\ events' = after.events
              /\ sent' = after.sent
              /\ last_status' = last_status
              /\ display' = create_display(EmptyDict, after.events,
                                           project_name, DefaultInterval)
    /\ aws_calls' = aws_calls + 1
    /\ polls' = polls + 1
    /\ pc' = "sleep"
    /\ UNCHANGED <<cmd, fetch_result, twin>>
    /\ UNCHANGED <<notify_mode, project_name, current_status,
                   final_build_info, summary, exit_code, now>>

\* Lines 279-285: a poll returns None (or {}).
PollFail ==
    /\ pc = "poll"
    /\ polls < MaxPolls
    /\ \E info \in {NoneInfo, EmptyDict} :
          LET after == add_event(Self, "ERROR",
                                 <<"Failed to fetch build info">>, now)
          IN  /\ ~Truthy(info)
              /\ build_info' = info
              /\ events' = after.events
              /\ sent' = after.sent
              /\ last_status' = after.last_status
              /\ display' = create_display(EmptyDict, after.events,
                                           project_name, DefaultInterval)
    /\ aws_calls' = aws_calls + 1
    /\ polls' = polls + 1
    /\ pc' = "sleep"
    /\ UNCHANGED <<cmd, fetch_result, twin>>
    /\ UNCHANGED <<notify_mode, project_name, current_status,
                   final_build_info, summary, exit_code, now>>

\* Lines 279, 287-296: a poll returns a snapshot.
PollOk ==
    /\ pc = "poll"
    /\ polls < MaxPolls
    /\ \E info \in Snapshots :
          LET status == Get(info, "buildStatus", "UNKNOWN")
              after == IF status # last_status
                       THEN add_event(Self, status,
                                      <<"Status changed to", status>>, now)
                       ELSE Self
          IN  /\ Truthy(info)
              /\ build_info' = info
              /\ current_status' = status
              /\ events' = after.events
              /\ sent' = after.sent
              /\ last_status' = after.last_status
              /\ display' = create_display(info, after.events, project_name,
                                           DefaultInterval)
              /\ pc' = IF IsTerminal(status) THEN "final" ELSE "sleep"
    /\ aws_calls' = aws_calls + 1
    /\ polls' = polls + 1
    /\ UNCHANGED <<cmd, fetch_result, twin>>
    /\ UNCHANGED <<notify_mode, project_name, final_build_info, summary,
                   exit_code, now>>

\* Lines 284, 310: time.sleep(self.interval), then the next iteration.
Sleep ==
    /\ pc = "sleep"
    /\ now' = now + DefaultInterval
    /\ pc' = "poll"
    /\ UNCHANGED <<cmd, fetch_result, twin>>
    /\ UNCHANGED <<notify_mode, events, last_status, project_name, build_info,
                   current_status, final_build_info, display, sent, summary,
                   exit_code, aws_calls, polls>>

\* The confirmatory fetch with a failure handled as the loop handles one
\* (lines 281-283): an ERROR event and a render of {}.
FinalFetchFailureAsInLoop ==
    /\ pc = "final"
    /\ now' = now + FinalPause
    /\ \E info \in Snapshots \cup {NoneInfo, EmptyDict} :
          LET after == IF Truthy(info) THEN Self
                       ELSE add_event(Self, "ERROR",
                                      <<"Failed to fetch build info">>, now')
          IN  /\ final_build_info' = info
              /\ events' = after.events
              /\ sent' = after.sent
              /\ last_status' = after.last_status
              /\ display' = create_display(IF Truthy(info) THEN info
                                           ELSE EmptyDict,
                                           after.events, project_name,
                                           DefaultInterval)
    /\ aws_calls' = aws_calls + 1
    /\ summary' = current_status
    /\ exit_code' = <<0>>
    /\ pc' = "done"
    /\ UNCHANGED <<cmd, fetch_result, twin>>
    /\ UNCHANGED <<notify_mode, project_name, build_info, current_status,
                   polls>>

\* The confirmatory fetch treated as one more poll (lines 287-293): its
\* status compared with last_status, logged when it differs, and printed in
\* the summary.
FinalFetchAsPoll ==
    /\ pc = "final"
    /\ now' = now + FinalPause
    /\ \E info \in Snapshots \cup {NoneInfo, EmptyDict} :
          LET status == Get(info, "buildStatus", "UNKNOWN")
              after == IF Truthy(info) /\ status # last_status
                       THEN add_event(Self, status,
                                      <<"Status changed to", status>>, now')
                       ELSE Self
          IN  /\ final_build_info' = info
              /\ events' = after.events
              /\ sent' = after.sent
              /\ last_status' = after.last_status
              /\ display' = IF Truthy(info)
                            THEN create_display(info, after.events,
                                                project_name, DefaultInterval)
                            ELSE display
              /\ summary' = IF Truthy(info) THEN status ELSE current_status
    /\ aws_calls' = aws_calls + 1
    /\ exit_code' = <<0>>
    /\ pc' = "done"
    /\ UNCHANGED <<cmd, fetch_result, twin>>
    /\ UNCHANGED <<notify_mode, project_name, build_info, current_status,
                   polls>>

\* Lines 298-308: the pause, the confirmatory fetch, the summary line, break;
\* run returns and the process exits 0.
FinalFetch ==
    /\ pc = "final"
    /\ now' = now + FinalPause
    /\ \E info \in Snapshots \cup {NoneInfo, EmptyDict} :
          /\ final_build_info' = info
          /\ display' = IF Truthy(info)
                        THEN create_display(info, events, project_name,
                                            DefaultInterval)
                        ELSE display
    /\ aws_calls' = aws_calls + 1
    /\ summary' = current_status
    /\ exit_code' = <<0>>
    /\ pc' = "done"
    /\ UNCHANGED <<cmd, fetch_result, twin>>
    /\ UNCHANGED <<notify_mode, events, last_status, project_name, build_info,
                   current_status, sent, polls>>

\* The KeyboardInterrupt left to the interpreter, as if lines 312-314 were
\* missing: the process ends with a traceback and exit code 1.
InterruptUncaught ==
    /\ pc \in {"poll", "sleep", "final"}
    /\ exit_code' = <<1>>
    /\ pc' = "interrupted"
    /\ UNCHANGED <<cmd, fetch_result, twin>>
    /\ UNCHANGED <<notify_mode, events, last_status, project_name, build_info,
                   current_status, final_build_info, display, sent, summary,
                   aws_calls, polls, now>>

\* Lines 312-314: KeyboardInterrupt while the process waits for a fetch
\* (lines 279, 299) or sleeps (lines 284, 298, 310).
Interrupt ==
    /\ pc \in {"poll", "sleep", "final"}
    /\ exit_code' = <<0>>
    /\ pc' = "interrupted"
    /\ UNCHANGED <<cmd, fetch_result, twin>>
    /\ UNCHANGED <<notify_mode, events, last_status, project_name, build_info,
                   current_status, final_build_info, display, sent, summary,
                   aws_calls, polls, now>>

\* Lines 279-293, 312-314: KeyboardInterrupt while the loop renders: the poll
\* has returned and its event, if any, is logged (lines 282, 291), and
\* live.update (lines 283, 293) is cut short.
InterruptPollRender ==
    /\ pc = "poll"
    /\ polls < MaxPolls
    /\ \E info \in Snapshots \cup {NoneInfo, EmptyDict} :
          LET status == Get(info, "buildStatus", "UNKNOWN")
              after == IF ~Truthy(info)
                       THEN add_event(Self, "ERROR",
                                      <<"Failed to fetch build info">>, now)
                       ELSE IF status # last_status
                       THEN add_event(Self, status,
                                      <<"Status changed to", status>>, now)
                       ELSE Self
          IN  /\ build_info' = info
              /\ current_status' = IF Truthy(info) THEN status
                                    ELSE current_status
              /\ events' = after.events
              /\ sent' = after.sent
              /\ last_status' = after.last_status
    /\ aws_calls' = aws_calls + 1
    /\ polls' = polls + 1
    /\ exit_code' = <<0>>
    /\ pc' = "interrupted"
    /\ UNCHANGED <<cmd, fetch_result, twin>>
    /\ UNCHANGED <<notify_mode, project_name, final_build_info, display,
                   summary, now>>

\* Lines 298-301, 312-314: KeyboardInterrupt while the result of the
\* confirmatory fetch is rendered (line 301).
InterruptFinalRender ==
    /\ pc = "final"
    /\ now' = now + FinalPause
    /\ \E info \in Snapshots :
          /\ Truthy(info)
          /\ final_build_info' = info
    /\ aws_calls' = aws_calls + 1
    /\ exit_code' = <<0>>
    /\ pc' = "interrupted"
    /\ UNCHANGED <<cmd, fetch_result, twin>>
    /\ UNCHANGED <<notify_mode, events, last_status, project_name, build_info,
                   current_status, display, sent, summary, polls>>

Next ==
    \/ InitialFetchFail
    \/ InitialFetchOk
    \/ PollFail
    \/ PollOk
    \/ Sleep
    \/ FinalFetch
    \/ Interrupt
    \/ InterruptPollRender
    \/ InterruptFinalRender

Spec == Init /\ [][Next]_vars

\* The pause of line 298 ends and the fetch of line 299 returns within its
\* 30 s timeout: once in "final", the process does not stay there for ever.
FairSpec == Spec /\ WF_vars(FinalFetch)

\* ------------------------------------------------------------------------
\* SpecUnit: add_event and create_display called on a BuildWatchDog object.
\* last_status starts as the constructor leaves it (None) or as line 273
\* sets it before the first add_event.
UnitStatuses == {"IN_PROGRESS", "SUCCEEDED"}

InitUnit ==
    /\ pc = "unit"
    /\ notify_mode \in NotifyModes
    /\ events = <<>>
    /\ last_status \in {None} \cup UnitStatuses
    /\ project_name = ""
    /\ build_info = NoneInfo
    /\ current_status = None
    /\ final_build_info = NoneInfo
    /\ display = NoPanel
    /\ sent = <<>>
    /\ summary = None
    /\ exit_code = <<>>
    /\ aws_calls = 0
    /\ polls = 0
    /\ now = 0
    /\ cmd = NoCommand
    /\ fetch_result = NotCalled
    /\ twin = NoTwin

\* One call add_event(status, message); a second of the clock passes.
AddEventCall ==
    /\ pc = "unit"
    /\ Len(events) < MaxUnitEvents
    /\ \E status \in UnitStatuses :
          LET after == add_event(Self, status,
                                 <<"Status changed to", status>>, now)
          IN  /\ events' = after.events
              /\ sent' = after.sent
              /\ last_status' = after.last_status
    /\ now' = now + 1
    /\ UNCHANGED <<cmd, fetch_result, twin>>
    /\ UNCHANGED <<pc, notify_mode, project_name, build_info, current_status,
                   final_build_info, display, summary, exit_code, aws_calls,
                   polls>>

\* One call create_display(build_info), its result kept in display.
RenderCall ==
    /\ pc = "unit"
    /\ \E info \in Snapshots \cup {EmptyDict} :
          /\ build_info' = info
          /\ display' = create_display(info, events, project_name,
                                       DefaultInterval)
    /\ pc' = "rendered"
    /\ UNCHANGED <<cmd, fetch_result, twin>>
    /\ UNCHANGED <<notify_mode, events, last_status, project_name,
                   current_status, final_build_info, sent, summary, exit_code,
                   aws_calls, polls, now>>

NextUnit == AddEventCall \/ RenderCall

SpecUnit == InitUnit /\ [][NextUnit]_vars

\* ------------------------------------------------------------------------
\* SpecRender: create_display as a function of build_info, over every phase
\* list of at most MaxPhases phases.
PhaseTypes == {"BUILD", "COMPLETED"}

PhaseStatuses == {"SUCCEEDED", "IN_PROGRESS", "FAILED"}

\* A phase dict: phaseType always there; phaseStatus missing, null or one of
\* the statuses.
PhaseRecords ==
    {[phaseType |-> n] : n \in PhaseTypes}
    \cup {[phaseType |-> n, phaseStatus |-> st] :
            n \in PhaseTypes, st \in PhaseStatuses \cup {None}}

PhaseLists ==
    UNION {[1..n -> PhaseRecords] : n \in 0..MaxPhases}

RenderInfos ==
    {[type |-> "dict", projectName |-> "demo", buildStatus |-> s,
      phases |-> ps] : s \in {"SUCCEEDED", "IN_PROGRESS", "FAILED"},
                       ps \in PhaseLists}
    \cup {[type |-> "dict", projectName |-> "demo", phases |-> ps] :
            ps \in PhaseLists}

InitRender ==
    /\ pc = "unit"
    /\ notify_mode = "both"
    /\ events = <<>>
    /\ last_status = None
    /\ project_name = ""
    /\ build_info \in RenderInfos
    /\ current_status = None
    /\ final_build_info = NoneInfo
    /\ display = NoPanel
    /\ sent = <<>>
    /\ summary = None
    /\ exit_code = <<>>
    /\ aws_calls = 0
    /\ polls = 0
    /\ now = 0
    /\ cmd = NoCommand
    /\ fetch_result = NotCalled
    /\ twin = NoTwin

\* create_display(build_info) on the drawn build_info.
RenderPhases ==
    /\ pc = "unit"
    /\ display' = create_display(build_info, events, project_name,
                                 DefaultInterval)
    /\ pc' = "rendered"
    /\ UNCHANGED <<cmd, fetch_result, twin>>
    /\ UNCHANGED <<notify_mode, events, last_status, project_name, build_info,
                   current_status, final_build_info, sent, summary, exit_code,
                   aws_calls, polls, now>>

NextRender == RenderPhases

SpecRender == InitRender /\ [][NextRender]_vars

\* ------------------------------------------------------------------------
\* SpecFetch: AWSCLIWrapper.get_build_info as a function of what the external
\* command did.  An error text is the set of fragments it contains, in the
\* letter case the tool wrote them; a stdout is malformed or the JSON value
\* it encodes.
ErrFragments ==
    {"could not be found", "Could Not Be Found", "credentials", "Credentials",
     "expired", "EXPIRED", "access denied"}

\* str.lower() on one fragment.
LowerFragment(f) ==
    CASE f = "Could Not Be Found" -> "could not be found"
      [] f = "Credentials"        -> "credentials"
      [] f = "EXPIRED"            -> "expired"
      [] OTHER                    -> f

\* error_msg.lower()
Lower(text) == {LowerFragment(f) : f \in text}

\* `phrase in text`
Contains(phrase, text) == phrase \in text

\* Lines 69-76 with the tests for "credentials" and "expired" exchanged.
ClassifyExpiredFirst(error_msg) ==
    IF Contains("could not be found", Lower(error_msg))
    THEN "tool-not-found"
    ELSE IF Contains("expired", Lower(error_msg))
    THEN "expired-credentials"
    ELSE IF Contains("credentials", Lower(error_msg))
    THEN "invalid-credentials"
    ELSE "generic-tool-error"

\* Lines 69-76: the diagnostic printed for the error text of a non-zero exit.
Classify(error_msg) ==
    IF Contains("could not be found", Lower(error_msg))
    THEN "tool-not-found"
    ELSE IF Contains("credentials", Lower(error_msg))
    THEN "invalid-credentials"
    ELSE IF Contains("expired", Lower(error_msg))
    THEN "expired-credentials"
    ELSE "generic-tool-error"

\* json.loads(stdout): the value, or JSONDecodeError.
json_loads(stdout) ==
    IF stdout.text = "json"
    THEN [exc |-> "", value |-> stdout.value]
    ELSE [exc |-> "JSONDecodeError"]

\* Truth value of data.get("builds"): None and [] are false.
TruthyList(v) == v.type = "list" /\ v.items # <<>>

\* Lines 59-84, the body of the try block: the value it returns with the
\* diagnostic it printed, or the exception it raises.
TryBody(c) ==
    IF c.kind # "completed"
    THEN [exc |-> c.kind]
    ELSE IF c.returncode # 0
    THEN [exc |-> "", value |-> NoneInfo, diagnostic |-> Classify(c.stderr)]
    ELSE LET loaded == json_loads(c.stdout)
         IN  IF loaded.exc # ""
             THEN [exc |-> loaded.exc]
             ELSE IF loaded.value.type # "dict"
             THEN [exc |-> "AttributeError"]
             ELSE LET builds == Get(loaded.value, "builds",
                                    [type |-> "NoneType"])
                  IN  IF ~TruthyList(builds)
                      THEN [exc |-> "", value |-> NoneInfo,
                            diagnostic |-> "build-not-found"]
                      ELSE [exc |-> "", value |-> builds.items[1],
                            diagnostic |-> ""]

Ended(returned, raised, diagnostic) ==
    [called |-> TRUE, returned |-> returned, raised |-> raised,
     diagnostic |-> diagnostic]

\* Lines 86-94 without the `except Exception` clause of lines 95-97.
HandlersWithoutCatchAll(body) ==
    CASE body.exc = ""                  ->
            Ended(body.value, "", body.diagnostic)
      [] body.exc = "TimeoutExpired"    -> Ended(NoneInfo, "", "timeout")
      [] body.exc = "JSONDecodeError"   -> Ended(NoneInfo, "", "invalid-response")
      [] body.exc = "FileNotFoundError" -> Ended(NoneInfo, "", "not-installed")
      [] OTHER                          -> Ended(NoneInfo, body.exc, "")

\* Lines 86-97: the except clauses.
Handlers(body) ==
    CASE body.exc = ""                  ->
            Ended(body.value, "", body.diagnostic)
      [] body.exc = "TimeoutExpired"    -> Ended(NoneInfo, "", "timeout")
      [] body.exc = "JSONDecodeError"   -> Ended(NoneInfo, "", "invalid-response")
      [] body.exc = "FileNotFoundError" -> Ended(NoneInfo, "", "not-installed")
      [] OTHER                          -> Ended(NoneInfo, "", "unexpected")

\* get_build_info(build_id) when subprocess.run does c.
get_build_info(c) == Handlers(TryBody(c))

SnapshotA ==
    [type |-> "dict", projectName |-> "demo", buildStatus |-> "IN_PROGRESS",
     phases |-> PhasesRunning]

SnapshotB ==
    [type |-> "dict", projectName |-> "other", buildStatus |-> "SUCCEEDED",
     phases |-> PhasesFinished]

JsonList(items) == [type |-> "list", items |-> items]

\* What the command can write to stdout: text that is no JSON, a JSON array,
\* objects without "builds", with "builds": null, with an empty list, and with
\* lists of one and two builds (one of them the empty object).
Stdouts ==
    {[text |-> "malformed"],
     [text |-> "json", value |-> [type |-> "list"]],
     [text |-> "json", value |-> [type |-> "dict"]],
     [text |-> "json",
      value |-> [type |-> "dict", builds |-> [type |-> "NoneType"]]]}
    \cup {[text |-> "json",
           value |-> [type |-> "dict", builds |-> JsonList(items)]] :
            items \in {<<>>, <<SnapshotA>>, <<SnapshotB, SnapshotA>>,
                       <<EmptyDict>>}}

ReturnCodes == {0, 1, 255}

\* What subprocess.run can do: return a CompletedProcess, or raise
\* TimeoutExpired, FileNotFoundError or another Exception.
CommandOutcomes ==
    {[kind |-> "completed", returncode |-> rc, stderr |-> err, stdout |-> out] :
        rc \in ReturnCodes, err \in SUBSET ErrFragments, out \in Stdouts}
    \cup {[kind |-> k] :
            k \in {"TimeoutExpired", "FileNotFoundError", "PermissionError"}}

InitFetch ==
    /\ pc = "unit"
    /\ notify_mode = "both"
    /\ events = <<>>
    /\ last_status = None
    /\ project_name = ""
    /\ build_info = NoneInfo
    /\ current_status = None
    /\ final_build_info = NoneInfo
    /\ display = NoPanel
    /\ sent = <<>>
    /\ summary = None
    /\ exit_code = <<>>
    /\ aws_calls = 0
    /\ polls = 0
    /\ now = 0
    /\ cmd \in CommandOutcomes
    /\ fetch_result = NotCalled
    /\ twin = NoTwin

\* One call of get_build_info.
GetBuildInfoCall ==
    /\ pc = "unit"
    /\ fetch_result' = get_build_info(cmd)
    /\ aws_calls' = aws_calls + 1
    /\ pc' = "returned"
    /\ UNCHANGED <<notify_mode, events, last_status, project_name, build_info,
                   current_status, final_build_info, display, sent, summary,
                   exit_code, polls, now, cmd, twin>>

NextFetch == GetBuildInfoCall

SpecFetch == InitFetch /\ [][NextFetch]_vars

\* ------------------------------------------------------------------------
\* SpecPair: two BuildWatchDog objects constructed with different notify
\* modes, each running run() on the same sequence of fetch results and the
\* same clock.  The first object is the variables of Spec, the second is
\* the record twin.

\* Lines 271-274 on the object state self: project name aside, last_status
\* is set and the first event logged.
RunStart(self, info, t) ==
    LET initial_status == Get(info, "buildStatus", "UNKNOWN")
    IN  add_event([self EXCEPT
                     !.last_status = InitialLastStatus(initial_status)],
                  initial_status, <<"Started monitoring -", initial_status>>,
                  t)

\* Lines 281-291 on the object state self, for the fetch result info.
RunPoll(self, info, t) ==
    LET current == Get(info, "buildStatus", "UNKNOWN")
    IN  IF ~Truthy(info)
        THEN add_event(self, "ERROR", <<"Failed to fetch build info">>, t)
        ELSE IF current # self.last_status
             THEN add_event(self, current, <<"Status changed to", current>>,
                            t)
             ELSE self

InitPair ==
    /\ pc = "start"
    /\ notify_mode \in NotifyModes
    /\ events = <<>>
    /\ last_status = None
    /\ project_name = ""
    /\ build_info = NoneInfo
    /\ current_status = None
    /\ final_build_info = NoneInfo
    /\ display = NoPanel
    /\ sent = <<>>
    /\ summary = None
    /\ exit_code = <<>>
    /\ aws_calls = 0
    /\ polls = 0
    /\ now = 0
    /\ cmd = NoCommand
    /\ fetch_result = NotCalled
    /\ \E mode \in NotifyModes \ {notify_mode} :
          twin = [events |-> <<>>, sent |-> <<>>, last_status |-> None,
                  notify_mode |-> mode]

\* Lines 267-274 in both runs: the initial fetch returns info.
PairInitialFetch ==
    /\ pc = "start"
    /\ \E info \in Snapshots \cup {NoneInfo} :
          /\ build_info' = info
          /\ IF Truthy(info)
             THEN LET after == RunStart(Self, info, now)
                  IN  /\ events' = after.events
                      /\ sent' = after.sent
                      /\ last_status' = after.last_status
                      /\ twin' = RunStart(twin, info, now)
                      /\ project_name' = Get(info, "projectName", "Unknown")
                      /\ pc' = "poll"
                      /\ exit_code' = exit_code
             ELSE /\ exit_code' = <<1>>
                  /\ pc' = "fatal"
                  /\ UNCHANGED <<events, sent, last_status, twin,
                                 project_name>>
    /\ aws_calls' = aws_calls + 1
    /\ UNCHANGED <<notify_mode, current_status, final_build_info, display,
                   summary, polls, now, cmd, fetch_result>>

\* Lines 279-310 in both runs: the poll returns info; both sleep, or both
\* leave the loop on a terminal status.
PairPoll ==
    /\ pc = "poll"
    /\ polls < MaxPolls
    /\ \E info \in Snapshots \cup {NoneInfo, EmptyDict} :
          LET after == RunPoll(Self, info, now)
              status == Get(info, "buildStatus", "UNKNOWN")
          IN  /\ build_info' = info
              /\ events' = after.events
              /\ sent' = after.sent
              /\ last_status' = after.last_status
              /\ twin' = RunPoll(twin, info, now)
              /\ IF Truthy(info)
                 THEN /\ current_status' = status
                      /\ pc' = IF IsTerminal(status) THEN "final" ELSE "poll"
                      /\ now' = IF IsTerminal(status) THEN now
                                ELSE now + DefaultInterval
                 ELSE /\ current_status' = current_status
                      /\ pc' = "poll"
                      /\ now' = now + DefaultInterval
    /\ aws_calls' = aws_calls + 1
    /\ polls' = polls + 1
    /\ UNCHANGED <<notify_mode, project_name, final_build_info, display,
                   summary, exit_code, cmd, fetch_result>>

\* Lines 298-308 in both runs: the confirmatory fetch touches neither
\* object's log; both print the summary and return.
PairFinal ==
    /\ pc = "final"
    /\ now' = now + FinalPause
    /\ \E info \in Snapshots \cup {NoneInfo} : final_build_info' = info
    /\ summary' = current_status
    /\ aws_calls' = aws_calls + 1
    /\ exit_code' = <<0>>
    /\ pc' = "done"
    /\ UNCHANGED <<notify_mode, events, last_status, project_name, build_info,
                   current_status, display, sent, polls, cmd, fetch_result,
                   twin>>

NextPair == PairInitialFetch \/ PairPoll \/ PairFinal

SpecPair == InitPair /\ [][NextPair]_vars

\* ------------------------------------------------------------------------
\* Properties of run (Spec, FairSpec).

\* A step in which the loop's fetch of line 279 returns and the iteration
\* runs on to its sleep or to the final pause (no KeyboardInterrupt cuts it).
PollReturns ==
    pc = "poll" /\ aws_calls' = aws_calls + 1 /\ pc' # "interrupted"

\* The build status that fetch returned, as line 287 reads it.
PolledStatus == Get(build_info', "buildStatus", "UNKNOWN")

TerminalValues == {"SUCCEEDED", "FAILED", "STOPPED", "FAULT", "TIMED_OUT"}

\* C1: whenever a poll succeeds with SUCCEEDED, FAILED, STOPPED, FAULT or
\* TIMED_OUT, the loop goes to the confirmatory fetch without exiting; from
\* there the only step other than a KeyboardInterrupt is that one fetch,
\* which ends the process with exit code 0; a process that ended that way
\* has issued exactly one fetch after its last poll and issues no other;
\* and the confirmatory fetch does come (FairSpec).
C1_TerminalStatusFinalizes ==
    /\ [][(PollReturns /\ Truthy(build_info')
             /\ PolledStatus \in TerminalValues)
            => (pc' = "final" /\ exit_code' = <<>>
                /\ aws_calls' = polls' + 1)]_vars
    /\ [][pc = "final"
            => \/ pc' = "interrupted"
               \/ /\ pc' = "done"
                  /\ aws_calls' = aws_calls + 1
                  /\ polls' = polls
                  /\ exit_code' = <<0>>]_vars
    /\ [][pc = "done" => (aws_calls' = aws_calls /\ pc' = "done")]_vars
    /\ [](pc = "done"
            => (exit_code = <<0>> /\ aws_calls = polls + 2
                /\ current_status \in TerminalValues))
    /\ (pc = "final" ~> pc \in {"done", "interrupted"})

\* C1 witness: the process has ended after a poll that returned TIMED_OUT
\* and the one confirmatory fetch.
C1_Witness ==
    /\ pc = "done"
    /\ current_status = "TIMED_OUT"
    /\ aws_calls = polls + 2

\* C2: a successful poll with any other status (IN_PROGRESS, UNKNOWN for a
\* missing buildStatus, an unrecognized string) leaves the loop polling: it
\* goes to the interval sleep, issues no further fetch before the next poll,
\* prints no summary and does not exit; and a process that ended without an
\* interrupt has observed a terminal status, whose summary it printed.
C2_NonTerminalStatusKeepsPolling ==
    /\ [][(PollReturns /\ Truthy(build_info')
             /\ PolledStatus \notin TerminalValues)
            => (pc' = "sleep" /\ exit_code' = <<>> /\ summary' = None
                /\ final_build_info' = final_build_info)]_vars
    /\ [][pc = "sleep"
            => (pc' \in {"poll", "interrupted"} /\ aws_calls' = aws_calls
                /\ summary' = None)]_vars
    /\ [](pc = "done" => current_status \in TerminalValues)
    /\ [](summary # None => (pc = "done" /\ summary \in TerminalValues))

\* C2 witness: the loop sleeps after a successful poll whose buildStatus
\* was missing, and after one that returned an unrecognized string.
C2_Witness ==
    /\ pc = "sleep"
    /\ Truthy(build_info)
    /\ current_status = "UNKNOWN"
    /\ \E i \in 1..Len(events) : events[i].status = "QUEUED"

\* The build status the run observed last before this poll: the local
\* current_status, or initial_status (the status of the first event) while no
\* poll has succeeded yet.
PreviouslyObserved ==
    IF current_status # None THEN current_status ELSE events[1].status

\* The step appends the event "Status changed to <the polled status>".
TransitionLogged ==
    /\ Len(events') = Len(events) + 1
    /\ events'[Len(events')].status = PolledStatus
    /\ events'[Len(events')].message = <<"Status changed to", PolledStatus>>

\* C3: a successful poll logs a transition event if and only if the polled
\* status differs from the recorded last status, and logs nothing when the
\* polled build status equals the build status observed before it.
C3_TransitionEventIffStatusDiffers ==
    [][(PollReturns /\ Truthy(build_info'))
         => /\ TransitionLogged <=> PolledStatus # last_status
            /\ ~TransitionLogged => events' = events
            /\ PolledStatus = PreviouslyObserved => events' = events]_vars

\* C5: the first event of a run, "Started monitoring", is recorded without a
\* notifier call, whatever the notify mode and the initial status: no call is
\* made while it is the only event, and no call ever carries its message.
C5_FirstEventNeverNotifies ==
    /\ pc = "start" => (events = <<>> /\ sent = <<>>)
    /\ Len(events) >= 1 => events[1].message[1] = "Started monitoring -"
    /\ Len(events) = 1 => sent = <<>>
    /\ \A i \in 1..Len(sent) : sent[i][2][1] # "Started monitoring -"

\* C5 witness: monitoring has started in a mode with desktop delivery and
\* only the first event is recorded.
C5_Witness ==
    /\ pc = "poll"
    /\ Len(events) = 1
    /\ notify_mode \in {"desktop", "both"}
    /\ events[1].status = "IN_PROGRESS"

\* C6: in notify mode terminal the notifier is never called.
C6_TerminalModeNeverNotifies ==
    notify_mode = "terminal" => sent = <<>>

\* C6 witness: in mode terminal, a status transition and a failed fetch have
\* both been logged.
C6_Witness ==
    /\ notify_mode = "terminal"
    /\ \E i, j \in 1..Len(events) :
          /\ events[i].message[1] = "Status changed to"
          /\ events[j].status = "ERROR"

ErrorEvent(t) ==
    [timestamp |-> t, status |-> "ERROR",
     message |-> <<"Failed to fetch build info">>]

\* C7: a failed poll appends exactly one ERROR event, re-renders (the new
\* event is the last row of the events table), goes to the interval sleep
\* and does not exit; the sleep is followed by the next poll, one interval
\* later (or by an interrupt); a successful poll, also after failed ones,
\* records and renders the polled status; exit code 1 never comes out of
\* the loop.
C7_PollFailureNonFatal ==
    /\ [][(PollReturns /\ ~Truthy(build_info'))
            => /\ events' = Append(events, ErrorEvent(now))
               /\ display'.type = "Panel"
               /\ display'.event_table[Len(display'.event_table)].message
                     = <<"Failed to fetch build info">>
               /\ pc' = "sleep"
               /\ exit_code' = <<>>]_vars
    /\ [][pc = "sleep"
            => \/ pc' = "interrupted"
               \/ (pc' = "poll" /\ now' = now + DefaultInterval)]_vars
    /\ [][(PollReturns /\ Truthy(build_info'))
            => /\ current_status' = PolledStatus
               /\ display'.status = PolledStatus
               /\ pc' \in {"sleep", "final"}]_vars
    /\ [](polls > 0 => exit_code # <<1>>)

\* C7 witness: a failed poll was followed by a successful one, and the run
\* goes on.
C7_Witness ==
    /\ pc = "sleep"
    /\ exit_code = <<>>
    /\ Len(events) >= 3
    /\ events[Len(events) - 1] = ErrorEvent(DefaultInterval)
    /\ events[Len(events)].message[1] = "Status changed to"

C12_InterruptExitsZero ==
    /\ [](pc \in {"poll", "sleep"} => ENABLED Interrupt)
    /\ []((pc = "poll" /\ polls < MaxPolls) => ENABLED InterruptPollRender)
    /\ [][(pc \in {"poll", "sleep"} /\ pc' = "interrupted")
            => (exit_code' = <<0>> /\ summary' = None
                /\ aws_calls' \in {aws_calls, aws_calls + 1})]_vars
    /\ [][pc = "interrupted"
            => (pc' = "interrupted" /\ aws_calls' = aws_calls)]_vars
    /\ [](pc = "interrupted" => exit_code = <<0>>)

\* C12 witness: the process was interrupted while it rendered a poll that had
\* logged a transition: the event is in the log and not on the display.
C12_Witness ==
    /\ pc = "interrupted"
    /\ exit_code = <<0>>
    /\ polls = 2
    /\ events[Len(events)].message[1] = "Status changed to"
    /\ display.event_table[Len(display.event_table)].message
          # events[Len(events)].message

\* The step appends exactly one event and leaves the earlier ones as they
\* were.
OneEventAppended ==
    /\ Len(events') = Len(events) + 1
    /\ SubSeq(events', 1, Len(events)) = events

\* C13: every step leaves the log as it was or appends one event to it, the
\* earlier events untouched; and an event is appended only by the start of
\* monitoring, by a failed fetch, or by a fetch whose status differs from
\* the status observed before it.
C13_LogAppendOnly ==
    [][events' # events
         => /\ OneEventAppended
            /\ \/ (pc = "start"
                   /\ events'[Len(events')].message[1] = "Started monitoring -")
               \/ (pc = "poll" /\ ~Truthy(build_info')
                   /\ events'[Len(events')].status = "ERROR")
               \/ (pc = "poll" /\ Truthy(build_info')
                   /\ PolledStatus # PreviouslyObserved)]_vars

\* C14: once monitoring has started, a step changes last_status if and only
\* if it logs a "Status changed to X" event; a failed fetch, with its ERROR
\* event, leaves last_status as it was.
C14_LastStatusChangesWithTransition ==
    [][pc # "start"
         => /\ last_status' # last_status
                <=> (/\ Len(events') = Len(events) + 1
                     /\ events'[Len(events')].message[1] = "Status changed to")
            /\ (pc = "poll" /\ events' # events /\ ~Truthy(build_info'))
                => last_status' = last_status]_vars

\* A step in which the confirmatory fetch of line 299 returns and run goes
\* on to the summary line.
FinalFetchReturns == pc = "final" /\ pc' = "done"

\* C16: at the confirmatory fetch the display is rendered again, from that
\* fetch's result, if and only if the fetch succeeds; if it fails the
\* display stays the one rendered from the terminal snapshot and no event
\* is logged; either way the summary line is printed and the process exits
\* with code 0.
C16_FinalRenderIffFetchSucceeds ==
    [][FinalFetchReturns
         => /\ IF Truthy(final_build_info')
               THEN /\ display' = create_display(final_build_info', events,
                                                 project_name, DefaultInterval)
                    /\ display'.status = Get(final_build_info', "buildStatus",
                                             "UNKNOWN")
               ELSE /\ display' = display
                    /\ display'.status = Get(build_info, "buildStatus",
                                             "UNKNOWN")
                    /\ display'.timeline = Timeline(Get(build_info, "phases",
                                                        <<>>),
                                                    display'.status)
            /\ events' = events
            /\ summary' \in TerminalValues
            /\ exit_code' = <<0>>]_vars

\* The confirmatory fetch failed after a poll that saw FAILED: the display
\* still shows FAILED, the log ends with the transition, the summary is
\* printed and the exit code is 0.
C16_Witness ==
    /\ pc = "done"
    /\ ~Truthy(final_build_info)
    /\ display.status = "FAILED"
    /\ events[Len(events)].message = <<"Status changed to", "FAILED">>
    /\ summary = "FAILED"
    /\ exit_code = <<0>>

\* C18: once the "Started monitoring" event is logged, last_status is the
\* status of the most recent event of the log, ERROR events included; and
\* two adjacent events of the log have the same status only when both are
\* ERROR events.
C18_LastStatusIsLastEventStatus ==
    events # <<>>
        => /\ last_status = events[Len(events)].status
           /\ \A i \in 1..(Len(events) - 1) :
                 events[i].status = events[i + 1].status
                     => events[i].status = "ERROR"

\* Two failed polls in a row, then a successful one: the log holds two
\* adjacent ERROR events and last_status follows its last event.
C18_Witness ==
    /\ Len(events) = 4
    /\ events[2].status = "ERROR"
    /\ events[3].status = "ERROR"
    /\ events[4].status = "SUCCEEDED"
    /\ last_status = "SUCCEEDED"

\* The previous fetch of the loop failed: the log ends with its ERROR event.
AfterFailedPoll ==
    /\ events # <<>>
    /\ events[Len(events)].status = "ERROR"
    /\ events[Len(events)].message = <<"Failed to fetch build info">>

\* A step in which the loop's fetch of line 279 returns (whether or not the
\* render that follows is interrupted).
LoopFetchReturns == pc = "poll" /\ aws_calls' = aws_calls + 1

\* C19: a failed poll leaves last_status = "ERROR" and appends an ERROR
\* event; it notifies (in the desktop modes) only when the fetch before it
\* did not fail.  A successful poll right after a failed one always appends
\* "Status changed to X", X the fetched status, and notifies in the desktop
\* modes, also when X is the status observed before the failure.
C19_FailureResetsLastStatus ==
    [][LoopFetchReturns
         => /\ ~Truthy(build_info')
               => /\ last_status' = "ERROR"
                  /\ events' = Append(events, ErrorEvent(now))
                  /\ sent' = IF ~AfterFailedPoll
                                /\ notify_mode \in {"desktop", "both"}
                             THEN Append(sent, <<"BuildWatchDog",
                                           <<"Failed to fetch build info">>>>)
                             ELSE sent
            /\ (Truthy(build_info') /\ AfterFailedPoll)
               => /\ events' = Append(events,
                        [timestamp |-> now, status |-> PolledStatus,
                         message |-> <<"Status changed to", PolledStatus>>])
                  /\ last_status' = PolledStatus
                  /\ sent' = IF notify_mode \in {"desktop", "both"}
                             THEN Append(sent, <<"BuildWatchDog",
                                      <<"Status changed to", PolledStatus>>>>)
                             ELSE sent]_vars

\* IN_PROGRESS at the start, two failed polls, IN_PROGRESS again: four
\* events, and two notifications (first failure, recovery) in desktop mode.
C19_Witness ==
    /\ notify_mode = "desktop"
    /\ Len(events) = 4
    /\ events[1].message = <<"Started monitoring -", "IN_PROGRESS">>
    /\ events[2].status = "ERROR"
    /\ events[3].status = "ERROR"
    /\ events[4].message = <<"Status changed to", "IN_PROGRESS">>
    /\ sent = << <<"BuildWatchDog", <<"Failed to fetch build info">>>>,
                 <<"BuildWatchDog", <<"Status changed to", "IN_PROGRESS">>>> >>

\* C20: the confirmatory fetch, whatever it returns, leaves the event log,
\* last_status and the notifier calls as they were; the summary line prints
\* the terminal status the polling fetch observed, not the status of the
\* confirmatory fetch.
C20_FinalFetchFrame ==
    [][(pc = "final" /\ aws_calls' = aws_calls + 1)
         => /\ events' = events
            /\ last_status' = last_status
            /\ sent' = sent
            /\ FinalFetchReturns
                 => /\ summary' = Get(build_info, "buildStatus", "UNKNOWN")
                    /\ summary' = events[Len(events)].status]_vars

\* The poll saw SUCCEEDED and the confirmatory fetch returned FAILED: the
\* display shows FAILED, the summary and the log say SUCCEEDED.
C20_Witness ==
    /\ pc = "done"
    /\ Get(final_build_info, "buildStatus", "UNKNOWN") = "FAILED"
    /\ display.status = "FAILED"
    /\ summary = "SUCCEEDED"
    /\ last_status = "SUCCEEDED"
    /\ events[Len(events)].status = "SUCCEEDED"

\* ------------------------------------------------------------------------
\* Properties of add_event and create_display (SpecUnit, SpecRender).

\* C4: a call add_event(status, message) calls the notifier, once and with
\* the message, exactly when status differs from last_status, last_status is
\* not None and notify_mode is desktop or both; otherwise it calls nothing.
C4_NotificationExactlyWhen ==
    [][events' # events
         => LET event == events'[Len(events')]
            IN  IF /\ event.status # last_status
                   /\ last_status # None
                   /\ notify_mode \in {"desktop", "both"}
                THEN sent' = Append(sent, <<"BuildWatchDog", event.message>>)
                ELSE sent' = sent]_vars

\* C4 witness: some calls of add_event have notified and others have not,
\* in a mode with desktop delivery.
C4_Witness ==
    /\ notify_mode = "desktop"
    /\ Len(sent) >= 2
    /\ Len(events) > Len(sent)

\* C9: the events table of a rendered panel has at most 8 rows; for a log of
\* n > 0 events they are its last min(8, n) events, in log order, each as
\* (time of day, message); for an empty log it is the one placeholder row.
C9_RecentEventsRows ==
    display.type = "Panel"
        => LET rows == display.event_table
               n == Len(events)
               k == IF n < 8 THEN n ELSE 8
           IN  /\ Len(rows) <= 8
               /\ IF n = 0
                  THEN rows = <<NoEventsRow>>
                  ELSE /\ Len(rows) = k
                       /\ \A i \in 1..k :
                            /\ rows[i].message = events[n - k + i].message
                            /\ rows[i].time
                                 = StrfTime(events[n - k + i].timestamp)

\* C9 witness: a panel rendered from a log of more than 8 events.
C9_Witness ==
    /\ pc = "rendered"
    /\ Len(events) > 8
    /\ Len(display.event_table) = 8

\* The phase list create_display was given.
RenderedPhases == Get(build_info, "phases", <<>>)

\* The phase dict carries a status (its phaseStatus is there and not null).
HasStatus(phase) ==
    "phaseStatus" \in DOMAIN phase /\ phase.phaseStatus # None

\* C10: each phase row shows the phase's own status when it has one; a
\* COMPLETED phase without status shows SUCCEEDED when the build status is
\* SUCCEEDED and PENDING otherwise; any other phase without status shows
\* PENDING.
C10_PhaseStatusResolution ==
    (display.type = "Panel" /\ RenderedPhases # <<>>)
        => /\ Len(display.timeline) = Len(RenderedPhases)
           /\ \A i \in 1..Len(RenderedPhases) :
                LET phase == RenderedPhases[i]
                    shown == display.timeline[i].status
                IN  /\ display.timeline[i].name = phase.phaseType
                    /\ IF HasStatus(phase)
                       THEN shown = phase.phaseStatus
                       ELSE IF phase.phaseType = "COMPLETED"
                       THEN IF "buildStatus" \in DOMAIN build_info
                               /\ build_info.buildStatus = "SUCCEEDED"
                            THEN shown = "SUCCEEDED"
                            ELSE shown = "PENDING"
                       ELSE shown = "PENDING"

\* C10 witness: one panel with a COMPLETED phase without status under an
\* IN_PROGRESS build, next to a phase with a status of its own.
C10_Witness ==
    /\ pc = "rendered"
    /\ "buildStatus" \in DOMAIN build_info
    /\ build_info.buildStatus = "IN_PROGRESS"
    /\ Len(RenderedPhases) = 2
    /\ RenderedPhases[1] = [phaseType |-> "BUILD", phaseStatus |-> "FAILED"]
    /\ RenderedPhases[2] = [phaseType |-> "COMPLETED"]
    /\ display.timeline[1].status = "FAILED"
    /\ display.timeline[2].status = "PENDING"


\* ------------------------------------------------------------------------
\* Properties of get_build_info (SpecFetch).

\* The command exited 0 and wrote a JSON object whose "builds" is a list
\* with at least one element.
CommandGaveBuilds ==
    /\ cmd.kind = "completed"
    /\ cmd.returncode = 0
    /\ cmd.stdout.text = "json"
    /\ cmd.stdout.value.type = "dict"
    /\ "builds" \in DOMAIN cmd.stdout.value
    /\ cmd.stdout.value.builds.type = "list"
    /\ Len(cmd.stdout.value.builds.items) >= 1

\* C11: whatever the external command does (non-zero exit, exit 0 without a
\* non-empty builds list, output that is no JSON or no JSON object, timeout,
\* missing executable, another exception), get_build_info raises nothing and
\* returns None; when the command exits 0 with a JSON object holding a
\* non-empty builds list, and only then, it returns the list's first element.
C11_FetcherNeverRaises ==
    fetch_result.called
        => /\ fetch_result.raised = ""
           /\ IF CommandGaveBuilds
              THEN fetch_result.returned = cmd.stdout.value.builds.items[1]
              ELSE fetch_result.returned = NoneInfo

\* C11 witness: subprocess.run raised an exception that has no except
\* clause of its own, and get_build_info returned None.
C11_Witness ==
    /\ pc = "returned"
    /\ cmd.kind = "PermissionError"
    /\ fetch_result.raised = ""
    /\ fetch_result.returned = NoneInfo

\* The error text of the command contains one of these fragments.
Mentions(forms) == cmd.stderr \cap forms # {}

\* C17: after a non-zero exit get_build_info returns None and prints the
\* diagnostic chosen by the first match, in any letter case, of "could not
\* be found" (tool not found), "credentials" (invalid credentials),
\* "expired" (expired credentials), and the generic one when none matches;
\* so a text with "credentials" and "expired" but without "could not be
\* found" is classified as invalid credentials.
C17_ErrorTextClassification ==
    (fetch_result.called /\ cmd.kind = "completed" /\ cmd.returncode # 0)
        => /\ fetch_result.returned = NoneInfo
           /\ fetch_result.raised = ""
           /\ fetch_result.diagnostic =
                IF Mentions({"could not be found", "Could Not Be Found"})
                THEN "tool-not-found"
                ELSE IF Mentions({"credentials", "Credentials"})
                THEN "invalid-credentials"
                ELSE IF Mentions({"expired", "EXPIRED"})
                THEN "expired-credentials"
                ELSE "generic-tool-error"

\* C17 witness: a non-zero exit whose error text has "Credentials" and
\* "EXPIRED" was classified as invalid credentials.
C17_Witness ==
    /\ pc = "returned"
    /\ cmd.kind = "completed"
    /\ cmd.returncode = 255
    /\ cmd.stderr = {"Credentials", "EXPIRED"}
    /\ fetch_result.diagnostic = "invalid-credentials"
    /\ fetch_result.returned = NoneInfo

\* ------------------------------------------------------------------------
\* Properties of two runs with different notify modes (SpecPair).

\* C15: add_event sets last_status to the new status exactly when the status
\* differs from last_status and last_status is not None, whatever the notify
\* mode; so two runs with different notify modes that are fed the same
\* fetch results have the same event log and the same last_status after
\* every step.
C15_LastStatusIndependentOfNotifyMode ==
    /\ [](events = twin.events /\ last_status = twin.last_status)
    /\ [][(pc = "poll" /\ events' # events)
            => LET status == events'[Len(events')].status
               IN  last_status' =
                     IF status # last_status /\ last_status # None
                     THEN status ELSE last_status]_vars

\* Two polls have logged status changes; one run has notified twice, the
\* other, in terminal mode, never; log and last_status agree.
C15_Witness ==
    /\ notify_mode = "terminal"
    /\ twin.notify_mode \in {"desktop", "both"}
    /\ Len(events) >= 3
    /\ events = twin.events
    /\ last_status = twin.last_status
    /\ sent = <<>>
    /\ Len(twin.sent) >= 2
====
